---- MODULE Spec2Model ----
(***************************************************************************)
(* Model of filter_index_image and get_bounding_box from                   *)
(* script_templates/PyImageJ/CellposeStarDistSegmentation.py.              *)
(*                                                                         *)
(* The index image narr is a function from grid coordinates to integers.   *)
(* One action per statement group of the loop body; the NumPy expressions  *)
(* are operators that compute what the NumPy call computes.                *)
(***************************************************************************)
EXTENDS Integers, Sequences, FiniteSets, TLC

\* ---------------------------------------------------------------- bounds
Rows == 2
Cols == 2
MaxForeground == 3
MaxCalls == 2

\* Non-zero values an input image may hold (0 is the background).
LabelValues == {0 - 1, 1, 2}
PositiveLabelValues == {v \in LabelValues : v > 0}

Cells == (0 .. Rows - 1) \X (0 .. Cols - 1)

\* Candidate values of min_size and max_size: one negative value, zero, and
\* every pixel count an input image can produce.
SizeArgs == (0 - 1) .. MaxForeground

Images(values) ==
    {a \in [Cells -> values \cup {0}] :
        Cardinality({c \in Cells : a[c] # 0}) <= MaxForeground}

\* ---------------------------------------------------------- NumPy helpers
SetMin(S) == CHOOSE x \in S : \A y \in S : x <= y
SetMax(S) == CHOOSE x \in S : \A y \in S : x >= y

Orderings(S) ==
    {s \in [1 .. Cardinality(S) -> S] : \A i, j \in DOMAIN s : s[i] = s[j] => i = j}

RECURSIVE SortedSeq(_)
SortedSeq(S) ==
    IF S = {} THEN << >>
    ELSE LET m == SetMin(S) IN << m >> \o SortedSeq(S \ {m})

\* np.unique(narr): the distinct values, ascending.
np_unique(a) == SortedSeq({a[c] : c \in Cells})

\* np.where(narr == label): the coordinates holding label.
np_where(a, lab) == {c \in Cells : a[c] = lab}

\* get_bounding_box(indices), for non-empty indices.
get_bounding_box(indices) ==
    << SetMin({c[1] : c \in indices}), SetMin({c[2] : c \in indices}),
       SetMax({c[1] : c \in indices}), SetMax({c[2] : c \in indices}) >>

\* narr[bbox[0]:bbox[2] + 1, bbox[1]:bbox[3] + 1].copy(): a new array,
\* indexed from (0, 0).
slice_copy(a, bb) ==
    [c \in (0 .. bb[3] - bb[1]) \X (0 .. bb[4] - bb[2]) |->
        a[<< c[1] + bb[1], c[2] + bb[2] >>]]

\* Variant of narr_after_crop: the crop taken as a view (no .copy()), so the
\* masking assignment of line 113 writes through to narr.
narr_after_crop_view(a, bb, lab) ==
    [c \in Cells |->
        IF /\ bb[1] <= c[1] /\ c[1] <= bb[3]
           /\ bb[2] <= c[2] /\ c[2] <= bb[4]
           /\ a[c] # lab
        THEN 0 ELSE a[c]]
\* What lines 112-113 leave in narr: the crop is a copy, so the masking
\* assignment on the crop does not write through to narr.
narr_after_crop(a, bb, lab) == a

\* bbox_crop[bbox_crop != label] = 0
mask_other(crop, lab) ==
    [c \in DOMAIN crop |-> IF crop[c] # lab THEN 0 ELSE crop[c]]

\* bbox_crop.astype(bool)
astype_bool(crop) == [c \in DOMAIN crop |-> crop[c] # 0]

\* np.sum over a boolean array
np_sum(b) == Cardinality({c \in DOMAIN b : b[c]})

\* Variant of crop_label_size: line 113 left out, every non-zero cell of the
\* crop is counted.
crop_area(a, bb, lab) == np_sum(astype_bool(slice_copy(a, bb)))
\* Lines 112-117: the label's size as the code computes it.
crop_label_size(a, bb, lab) ==
    np_sum(astype_bool(mask_other(slice_copy(a, bb), lab)))

\* Variant of in_range: strict comparisons.
in_range_exclusive(lo, size, hi) == lo < size /\ size < hi
\* min_size <= label_size <= max_size
in_range(lo, size, hi) == lo <= size /\ size <= hi

\* The first coordinate of a non-empty set in row-major (C) order, the order
\* in which a boolean-mask assignment writes.
first_cell(S) ==
    CHOOSE c \in S : \A d \in S : c[1] < d[1] \/ (c[1] = d[1] /\ c[2] <= d[2])

\* Variant of masked_cells: the whole bounding box of the label.
masked_cells_bbox(a, lab) ==
    IF np_where(a, lab) = {} THEN {}
    ELSE LET bb == get_bounding_box(np_where(a, lab))
         IN {c \in Cells : /\ bb[1] <= c[1] /\ c[1] <= bb[3]
                           /\ bb[2] <= c[2] /\ c[2] <= bb[4]}
\* narr == label, the boolean mask of line 120, as the set of its True cells
masked_cells(a, lab) == np_where(a, lab)

\* Variant of zero_label: the cells are set to 1 (True) instead of 0.
zero_label_writes_one(a, lab) ==
    [c \in Cells |-> IF a[c] = lab THEN 1 ELSE a[c]]
\* narr[narr == label] = 0
zero_label(a, lab) == [c \in Cells |-> IF a[c] = lab THEN 0 ELSE a[c]]

\* Variant of is_background: negative values are skipped too.
is_background_or_negative(lab) == lab <= 0
\* if label == 0: continue
is_background(lab) == lab = 0

\* ------------------------------------------------------------------ state
VARIABLES
    narr,        \* the index image, mutated in place
    input,       \* the image as it was passed to the first call
    prev,        \* the image the previous call returned (input before any)
    min_size, max_size,
    unique,      \* the label enumeration of the current call
    idx,         \* position of the for loop in unique (1-based)
    label, bbox, label_size,   \* locals of the loop body
    pc,          \* "start", "loop", "bbox", "crop", "test", "par", "done"
    outcome,     \* "none", "returned", or the name of the exception raised
    calls,       \* number of calls started
    wpc,         \* per-label worker: "off", "where", "crop", "test", "write", "done"
    wbbox, wsize,  \* per-label worker: its bbox and label_size
    wtodo,       \* per-label worker: coordinates its assignment has yet to write
    writes       \* every << worker, coordinate >> written so far

seqvars == << narr, input, prev, min_size, max_size, unique, idx, label,
              bbox, label_size, pc, outcome, calls >>
parvars == << wpc, wbbox, wsize, wtodo, writes >>
vars == << seqvars, parvars >>

NoBox == << 0, 0, 0, 0 >>

InitWith(images, ranges) ==
    /\ narr \in images
    /\ input = narr
    /\ prev = narr
    /\ \E r \in ranges : min_size = r[1] /\ max_size = r[2]
    /\ unique = << >>
    /\ idx = 1
    /\ label = 0
    /\ bbox = NoBox
    /\ label_size = 0
    /\ pc = "start"
    /\ outcome = "none"
    /\ calls = 1
    /\ wpc = [w \in LabelValues |-> "off"]
    /\ wbbox = [w \in LabelValues |-> NoBox]
    /\ wsize = [w \in LabelValues |-> 0]
    /\ wtodo = [w \in LabelValues |-> {}]
    /\ writes = {}

ValidRanges == {r \in SizeArgs \X SizeArgs : 0 <= r[1] /\ r[1] <= r[2]}

\* Images of non-negative labels and any pair of size arguments.
Init == InitWith(Images(PositiveLabelValues), SizeArgs \X SizeArgs)

\* Images of non-negative labels with 0 <= min_size <= max_size.
InitValid == InitWith(Images(PositiveLabelValues), ValidRanges)

\* Images that may hold a negative value, with 0 <= min_size <= max_size.
InitSigned == InitWith(Images(LabelValues), ValidRanges)

\* ---------------------------------------------------------------- actions
\* line 104: unique = np.unique(narr)
Enumerate ==
    /\ pc = "start"
    /\ unique' = np_unique(narr)
    /\ idx' = 1
    /\ pc' = "loop"
    /\ UNCHANGED << narr, input, prev, min_size, max_size, label, bbox,
                    label_size, outcome, calls, parvars >>

\* line 104 with the distinct values enumerated in an arbitrary order
EnumerateAnyOrder ==
    /\ pc = "start"
    /\ unique' \in Orderings({narr[c] : c \in Cells})
    /\ idx' = 1
    /\ pc' = "loop"
    /\ UNCHANGED << narr, input, prev, min_size, max_size, label, bbox,
                    label_size, outcome, calls, parvars >>

\* lines 105-108: the next label is the background and is skipped
SkipBackground ==
    /\ pc = "loop"
    /\ idx <= Len(unique)
    /\ is_background(unique[idx])
    /\ label' = unique[idx]
    /\ idx' = idx + 1
    /\ UNCHANGED << narr, input, prev, min_size, max_size, unique, bbox,
                    label_size, pc, outcome, calls, parvars >>

\* lines 105-106: the next label is not the background
Visit ==
    /\ pc = "loop"
    /\ idx <= Len(unique)
    /\ ~ is_background(unique[idx])
    /\ label' = unique[idx]
    /\ pc' = "bbox"
    /\ UNCHANGED << narr, input, prev, min_size, max_size, unique, idx, bbox,
                    label_size, outcome, calls, parvars >>

\* line 111: bbox = get_bounding_box(np.where(narr == label)); np.min of an
\* empty array raises ValueError
BoundingBox ==
    /\ pc = "bbox"
    /\ IF np_where(narr, label) = {}
       THEN /\ outcome' = "ValueError"
            /\ pc' = "done"
            /\ bbox' = bbox
       ELSE /\ bbox' = get_bounding_box(np_where(narr, label))
            /\ pc' = "crop"
            /\ outcome' = outcome
    /\ UNCHANGED << narr, input, prev, min_size, max_size, unique, idx,
                    label, label_size, calls, parvars >>

\* lines 112-117: crop, mask the other labels, count
Crop ==
    /\ pc = "crop"
    /\ label_size' = crop_label_size(narr, bbox, label)
    /\ narr' = narr_after_crop(narr, bbox, label)
    /\ pc' = "test"
    /\ UNCHANGED << input, prev, min_size, max_size, unique, idx, label,
                    bbox, outcome, calls, parvars >>

\* lines 119-120: the size is outside the range, the label is zeroed
Remove ==
    /\ pc = "test"
    /\ ~ in_range(min_size, label_size, max_size)
    /\ narr' = zero_label(narr, label)
    /\ idx' = idx + 1
    /\ pc' = "loop"
    /\ UNCHANGED << input, prev, min_size, max_size, unique, label, bbox,
                    label_size, outcome, calls, parvars >>

\* line 119: the size is inside the range, the label is kept
Keep ==
    /\ pc = "test"
    /\ in_range(min_size, label_size, max_size)
    /\ idx' = idx + 1
    /\ pc' = "loop"
    /\ UNCHANGED << narr, input, prev, min_size, max_size, unique, label,
                    bbox, label_size, outcome, calls, parvars >>

\* line 122: return narr
Return ==
    /\ pc = "loop"
    /\ idx > Len(unique)
    /\ pc' = "done"
    /\ outcome' = "returned"
    /\ UNCHANGED << narr, input, prev, min_size, max_size, unique, idx,
                    label, bbox, label_size, calls, parvars >>

\* filter_index_image called again on the image it returned, same range
\* (the call of line 165, repeated): fresh locals, same array.
Call ==
    /\ pc = "done"
    /\ outcome = "returned"
    /\ calls < MaxCalls
    /\ calls' = calls + 1
    /\ prev' = narr
    /\ unique' = << >>
    /\ idx' = 1
    /\ label' = 0
    /\ bbox' = NoBox
    /\ label_size' = 0
    /\ pc' = "start"
    /\ outcome' = "none"
    /\ UNCHANGED << narr, input, min_size, max_size, parvars >>

Body ==
    \/ SkipBackground
    \/ Visit
    \/ BoundingBox
    \/ Crop
    \/ Remove
    \/ Keep
    \/ Return

Next == Enumerate \/ Body

Spec == Init /\ [][Next]_vars

\* One call on an image that may hold negative values.
SpecSigned == InitSigned /\ [][Next]_vars

\* Two calls in a row on the same array.
NextTwice == Enumerate \/ Body \/ Call
SpecTwice == InitValid /\ [][NextTwice]_vars

\* One call with the labels enumerated in any order.
NextOrd == EnumerateAnyOrder \/ Body
SpecOrd == InitValid /\ [][NextOrd]_vars

\* ------------------------------------------------- the loop as a function
\* The sequential loop of lines 105-120 over the enumeration seq from
\* position i on; an empty np.where leaves the array as it is (the call
\* ends in ValueError there).
RECURSIVE run_loop(_, _, _, _, _)
run_loop(a, seq, i, lo, hi) ==
    IF i > Len(seq) THEN a
    ELSE IF is_background(seq[i]) THEN run_loop(a, seq, i + 1, lo, hi)
    ELSE IF np_where(a, seq[i]) = {} THEN a
    ELSE LET lab == seq[i]
             bb == get_bounding_box(np_where(a, lab))
             size == crop_label_size(a, bb, lab)
             a1 == narr_after_crop(a, bb, lab)
         IN run_loop(IF in_range(lo, size, hi) THEN a1 ELSE zero_label(a1, lab),
                     seq, i + 1, lo, hi)

\* filter_index_image(narr, min_size, max_size) as the source runs it
filter_index_image(a, lo, hi) == run_loop(a, np_unique(a), 1, lo, hi)

\* ------------------------------------------- the loop body run by workers
\* One worker per distinct non-zero label runs lines 111-120 for its label on
\* the shared array, with no synchronization. The masked assignment of line
\* 120 writes its cells one step at a time, in row-major order, so other
\* workers' steps fall between any two writes. A NumPy read of the array may
\* overlap such writes: every cell is only ever written from its original
\* value to 0, so the read sees, cell by cell, the original or the current
\* value. ReadViews is every such mix.
ReadViews(a) ==
    LET changed == {c \in Cells : a[c] # input[c]}
    IN {[c \in Cells |-> IF c \in S THEN input[c] ELSE a[c]] :
            S \in SUBSET changed}

Spawn ==
    /\ pc = "start"
    /\ unique' = np_unique(narr)
    /\ wpc' = [w \in LabelValues |->
                 IF \E k \in 1 .. Len(np_unique(narr)) :
                        np_unique(narr)[k] = w /\ ~ is_background(w)
                 THEN "where" ELSE "off"]
    /\ pc' = "par"
    /\ UNCHANGED << narr, input, prev, min_size, max_size, idx, label, bbox,
                    label_size, outcome, calls, wbbox, wsize, wtodo, writes >>

\* line 111 in worker w
WWhere(w) ==
    /\ pc = "par"
    /\ wpc[w] = "where"
    /\ \E m \in ReadViews(narr) :
         IF np_where(m, w) = {}
         THEN /\ outcome' = "ValueError"
              /\ pc' = "done"
              /\ UNCHANGED << wpc, wbbox >>
         ELSE /\ wbbox' = [wbbox EXCEPT ![w] = get_bounding_box(np_where(m, w))]
              /\ wpc' = [wpc EXCEPT ![w] = "crop"]
              /\ UNCHANGED << pc, outcome >>
    /\ UNCHANGED << narr, input, prev, min_size, max_size, unique, idx, label,
                    bbox, label_size, calls, wsize, wtodo, writes >>

\* lines 112-117 in worker w
WCrop(w) ==
    /\ pc = "par"
    /\ wpc[w] = "crop"
    /\ \E m \in ReadViews(narr) :
         wsize' = [wsize EXCEPT ![w] = crop_label_size(m, wbbox[w], w)]
    /\ narr' = narr_after_crop(narr, wbbox[w], w)
    /\ wpc' = [wpc EXCEPT ![w] = "test"]
    /\ UNCHANGED << input, prev, min_size, max_size, unique, idx, label, bbox,
                    label_size, pc, outcome, calls, wbbox, wtodo, writes >>

\* line 119 in worker w, size inside the range
WKeep(w) ==
    /\ pc = "par"
    /\ wpc[w] = "test"
    /\ in_range(min_size, wsize[w], max_size)
    /\ wpc' = [wpc EXCEPT ![w] = "done"]
    /\ UNCHANGED << seqvars, wbbox, wsize, wtodo, writes >>

\* lines 119-120 in worker w, size outside the range: narr == label is
\* evaluated
WMask(w) ==
    /\ pc = "par"
    /\ wpc[w] = "test"
    /\ ~ in_range(min_size, wsize[w], max_size)
    /\ \E m \in ReadViews(narr) :
         /\ wtodo' = [wtodo EXCEPT ![w] = masked_cells(m, w)]
         /\ wpc' = [wpc EXCEPT ![w] = IF masked_cells(m, w) = {} THEN "done"
                                      ELSE "write"]
    /\ UNCHANGED << seqvars, wbbox, wsize, writes >>

\* line 120 in worker w: the next cell of the mask is set to 0
WWrite(w) ==
    /\ pc = "par"
    /\ wpc[w] = "write"
    /\ LET c == first_cell(wtodo[w])
       IN /\ narr' = [narr EXCEPT ![c] = 0]
          /\ writes' = writes \cup {<< w, c >>}
          /\ wtodo' = [wtodo EXCEPT ![w] = wtodo[w] \ {c}]
          /\ wpc' = [wpc EXCEPT ![w] = IF wtodo[w] = {c} THEN "done"
                                       ELSE "write"]
    /\ UNCHANGED << input, prev, min_size, max_size, unique, idx, label, bbox,
                    label_size, pc, outcome, calls, wbbox, wsize >>

\* every worker has finished: line 122
Join ==
    /\ pc = "par"
    /\ \A w \in LabelValues : wpc[w] \in {"off", "done"}
    /\ pc' = "done"
    /\ outcome' = "returned"
    /\ UNCHANGED << narr, input, prev, min_size, max_size, unique, idx, label,
                    bbox, label_size, calls, parvars >>

NextPar ==
    \/ Spawn
    \/ \E w \in LabelValues : WWhere(w)
    \/ \E w \in LabelValues : WCrop(w)
    \/ \E w \in LabelValues : WKeep(w)
    \/ \E w \in LabelValues : WMask(w)
    \/ \E w \in LabelValues : WWrite(w)
    \/ Join

SpecPar == InitValid /\ [][NextPar]_vars

\* ----------------------------------------------------- derived quantities
\* Full-grid pixel count of a value.
Count(a, v) == Cardinality({c \in Cells : a[c] = v})
NonZeroLabels(a) == {a[c] : c \in Cells} \ {0}
NonNegative(a) == \A c \in Cells : a[c] >= 0
ValidRange == 0 <= min_size /\ min_size <= max_size
InvalidRange == max_size < min_size \/ min_size < 0 \/ max_size < 0
SizeOk(n) == min_size <= n /\ n <= max_size
InBox(bb, c) ==
    /\ bb[1] <= c[1] /\ c[1] <= bb[3]
    /\ bb[2] <= c[2] /\ c[2] <= bb[4]

\* ------------------------------------------------------------------ claims

\* C1: for a non-negative mask and 0 <= min_size <= max_size, when the call
\* has returned every non-zero value left in the mask has a full-grid count
\* within [min_size, max_size], and every label whose original count was
\* outside the range has no cell left.
C1_SizeBound ==
    (pc = "done" /\ NonNegative(input) /\ ValidRange) =>
        /\ outcome = "returned"
        /\ \A v \in NonZeroLabels(narr) : SizeOk(Count(narr, v))
        /\ \A v \in NonZeroLabels(input) :
               ~ SizeOk(Count(input, v)) => Count(narr, v) = 0

\* C1 witness: a returned call that removed a label larger than max_size and
\* kept another label.
C1_Witness ==
    /\ pc = "done" /\ outcome = "returned"
    /\ NonNegative(input) /\ ValidRange /\ min_size >= 1
    /\ \E v \in NonZeroLabels(input) :
           Count(input, v) > max_size /\ Count(narr, v) = 0
    /\ NonZeroLabels(narr) # {}

\* C2: with a valid range, every label whose original count lies within
\* [min_size, max_size], the two ends included, holds exactly its original
\* cells with its original value after the call.
C2_NoSpuriousRemoval ==
    (pc = "done" /\ ValidRange) =>
        \A v \in NonZeroLabels(input) :
            SizeOk(Count(input, v)) => np_where(narr, v) = np_where(input, v)

\* C2 witness: a returned call with min_size < max_size that kept one label
\* of exactly min_size cells and one of exactly max_size cells.
C2_Witness ==
    /\ pc = "done" /\ outcome = "returned"
    /\ ValidRange /\ min_size < max_size
    /\ \E u, v \in NonZeroLabels(input) :
           /\ Count(input, u) = min_size /\ Count(input, v) = max_size
           /\ np_where(narr, u) = np_where(input, u)
           /\ np_where(narr, v) = np_where(input, v)

\* C3: a second call with the same range on the result of the first call
\* returns a mask equal cell for cell to the result of the first call.
C3_Idempotent ==
    (pc = "done" /\ calls >= 2) => (outcome = "returned" /\ narr = prev)

\* C3 witness: the second call has returned, and the first call removed a
\* label and kept a label.
C3_Witness ==
    /\ pc = "done" /\ calls = 2 /\ outcome = "returned"
    /\ prev # input
    /\ NonZeroLabels(prev) # {}
    /\ narr = prev

\* C4: in every state of the call each cell holds its original value or 0,
\* cells that were 0 are 0, the set of non-zero labels is a subset of the
\* original one, and the extents of the mask are the original ones.
C4_Frame ==
    /\ DOMAIN narr = DOMAIN input
    /\ \A c \in Cells : narr[c] = input[c] \/ narr[c] = 0
    /\ \A c \in Cells : input[c] = 0 => narr[c] = 0
    /\ NonZeroLabels(narr) \subseteq NonZeroLabels(input)

\* C4 witness: in the middle of the loop, one label removed, another still
\* present and labels left to visit.
C4_Witness ==
    /\ pc = "loop" /\ idx <= Len(unique)
    /\ \E c \in Cells : input[c] # 0 /\ narr[c] = 0
    /\ NonZeroLabels(narr) # {}

\* C5 (as claimed): a call with max_size < min_size or a negative bound ends
\* in InvalidRangeError.
C5_RaisesInvalidRange ==
    (pc = "done" /\ InvalidRange) => outcome = "InvalidRangeError"

\* C5 (amended): a call with max_size < min_size or a negative bound raises
\* nothing; it returns the mask in which exactly the labels whose count is
\* not within [min_size, max_size] are zeroed (every label when
\* max_size < min_size).
C5_InvalidRangeReturns ==
    (pc = "done" /\ InvalidRange) =>
        /\ outcome = "returned"
        /\ \A c \in Cells :
               narr[c] = IF input[c] # 0 /\ SizeOk(Count(input, input[c]))
                         THEN input[c] ELSE 0
        /\ max_size < min_size => \A c \in Cells : narr[c] = 0

\* C5 witness: a call with max_size < min_size, both non-negative, on a mask
\* with labels has returned an all-background mask.
C5_Witness ==
    /\ pc = "done" /\ outcome = "returned"
    /\ 0 <= max_size /\ max_size < min_size
    /\ NonZeroLabels(input) # {}
    /\ NonZeroLabels(narr) = {}

\* C6 (as claimed): a call on a mask holding a negative value ends in
\* InvalidMaskError.
C6_RaisesInvalidMask ==
    (pc = "done" /\ ~ NonNegative(input)) => outcome = "InvalidMaskError"

\* C6 (amended): a call on a mask holding a negative value raises nothing;
\* the negative value is visited like any other non-zero label: its size is
\* its full-grid count, and it is kept when that count is within
\* [min_size, max_size] and zeroed otherwise.
C6_NegativeLabelFiltered ==
    /\ (pc = "test" /\ label < 0) => label_size = Count(input, label)
    /\ (pc = "done" /\ ~ NonNegative(input)) =>
           /\ outcome = "returned"
           /\ \A c \in Cells :
                  input[c] < 0 =>
                      narr[c] = IF SizeOk(Count(input, input[c]))
                                THEN input[c] ELSE 0

\* C6 witness: a returned call, valid range, that zeroed a negative label
\* for its size.
C6_Witness ==
    /\ pc = "done" /\ outcome = "returned" /\ ValidRange
    /\ \E c \in Cells : input[c] < 0 /\ narr[c] = 0
    /\ min_size <= 1

\* C7: with one unsynchronized worker per distinct non-zero label, whatever
\* the interleaving, the final mask is the mask of the sequential loop and no
\* coordinate is written by two workers.
C7_ParallelEqualsSequential ==
    /\ pc = "done" =>
           /\ outcome = "returned"
           /\ narr = filter_index_image(input, min_size, max_size)
    /\ \A x, y \in writes : x[2] = y[2] => x[1] = y[1]

\* C7 witness: the run has ended and two different workers have written
\* cells of the mask.
C7_Witness ==
    /\ pc = "done"
    /\ \E x, y \in writes : x[1] # y[1]
    /\ NonZeroLabels(input) # NonZeroLabels(narr)

\* C8: whatever the order in which the distinct values are enumerated, the
\* returned mask is the one the ascending enumeration produces.
C8_OrderIndependent ==
    pc = "done" =>
        /\ outcome = "returned"
        /\ narr = filter_index_image(input, min_size, max_size)

\* C8 witness: a returned call whose enumeration was not ascending and which
\* removed one label and kept another.
C8_Witness ==
    /\ pc = "done" /\ outcome = "returned"
    /\ unique # np_unique(input)
    /\ NonZeroLabels(narr) # {}
    /\ NonZeroLabels(narr) # NonZeroLabels(input)

\* C9: the size counted in the bounding-box crop is the number of cells of
\* the whole mask holding the label, and the crop-and-count step leaves the
\* mask as it was.
C9_CropCountIsFullCount ==
    /\ [](pc = "test" => label_size = Count(narr, label))
    /\ [][pc = "crop" => narr' = narr]_vars

\* C9 witness: a counted label of two non-adjacent cells whose box also holds
\* a cell of another label and a background cell.
C9_Witness ==
    /\ pc = "test" /\ label_size = 2
    /\ \E c \in Cells : InBox(bbox, c) /\ narr[c] # 0 /\ narr[c] # label
    /\ \E c \in Cells : InBox(bbox, c) /\ narr[c] = 0
    /\ \A c, d \in np_where(narr, label) :
           c # d => (c[1] # d[1] /\ c[2] # d[2])

\* C10: a label holds its original cells when it is visited and every label
\* not yet visited holds its original cells, so get_bounding_box never gets
\* an empty set of coordinates.
C10_VisitedLabelIntact ==
    /\ outcome # "ValueError"
    /\ pc \in {"bbox", "crop", "test"} =>
           /\ np_where(narr, label) # {}
           /\ np_where(narr, label) = np_where(input, label)
    /\ pc \in {"loop", "bbox", "crop", "test"} =>
           \A k \in idx .. Len(unique) :
               ~ is_background(unique[k]) =>
                   np_where(narr, unique[k]) = np_where(input, unique[k])

\* C10 witness: a label has got its bounding box after an earlier label,
\* with a cell inside that box, was zeroed.
C10_Witness ==
    /\ pc = "crop"
    /\ \E c \in Cells : input[c] # 0 /\ narr[c] = 0 /\ InBox(bbox, c)

====
